---- MODULE Spec2Model ----
(***************************************************************************)
(* Model of mmoney_cli/cli.py: the response normalizer, the record         *)
(* flattener and the jsonl / csv / text renderers, the error envelope, the *)
(* credential resolver (keychain first, session file as fallback), login / *)
(* logout persistence and the mutation gate wrapped around state-changing  *)
(* commands.                                                               *)
(*                                                                         *)
(* A JSON-like value is a tagged record [t, v]:                            *)
(*   null  [t |-> "null", v |-> <<>>]      number [t |-> "num", v |-> n]    *)
(*   string [t |-> "str", v |-> s]         list   [t |-> "list", v |-> seq] *)
(*   mapping [t |-> "dict", v |-> sequence of <<key, value>> pairs], the   *)
(*   sequence order being the mapping's iteration order.                   *)
(*   A str built at run time is [t |-> "text", v |-> its characters].       *)
(* Written output is a sequence of characters, so that escaping, quoting,  *)
(* separators and line breaks are there to be read back.                   *)
(***************************************************************************)
EXTENDS Integers, Sequences, FiniteSets, TLC

VARIABLES
    keychain,     \* password stored under (mmoney-cli, monarch-token), or None
    sessionFile,  \* token pickled in ~/.mmoney/session.pickle, or Absent
    cmd,          \* the command of the last invocation
    args,         \* its parsed inputs and the outcomes the environment chose
    exitCode,     \* process exit status of the last invocation
    errCode,      \* code of the error envelope written to stderr, or NoError
    stdout,       \* messages echoed to standard output, in order
    calls,        \* collaborator calls made by the invocation, in order
    raised,       \* an exception escaped the command (traceback)
    client,       \* the MonarchMoney object the invocation built
    svcArgs,      \* arguments the service operation was invoked with
    data,         \* Response handed to the normalizer
    records,      \* what _extract_records returned for it
    flat,         \* what _flatten_dict returned for a record
    stderr        \* the error envelope written to standard error, or NoEnvelope

vars == <<keychain, sessionFile, cmd, args, exitCode, errCode, stdout, calls,
          raised, client, svcArgs, data, records, flat, stderr>>

----------------------------------------------------------------------------
(* Bounds *)

MaxEntries == 2   \* entries of a top-level mapping Response
MaxRecs == 2      \* elements of a record list
MaxFields == 2    \* fields of a record given to the flattener

----------------------------------------------------------------------------
(* JSON-like values *)

Null == [t |-> "null", v |-> <<>>]
Num(n) == [t |-> "num", v |-> n]
Str(s) == [t |-> "str", v |-> s]
List(s) == [t |-> "list", v |-> s]
Dict(s) == [t |-> "dict", v |-> s]

IsList(x) == x.t = "list"
IsDict(x) == x.t = "dict"

\* `k in d` for a mapping d
HasKey(d, k) == \E i \in 1..Len(d.v) : d.v[i][1] = k

\* d[k] for a mapping d that has the key
GetKey(d, k) == d.v[CHOOSE i \in 1..Len(d.v) : d.v[i][1] = k][2]

----------------------------------------------------------------------------
(* Response normalizer *)

list_keys == << "accounts", "results", "transactions", "categories",
                "householdTransactionTags", "credentials", "budgetData",
                "recurringTransactions", "splits", "snapshots", "history" >>

InListKeys(k) == \E j \in 1..Len(list_keys) : list_keys[j] = k

\* The for loop of _extract_records over data.items(), from entry i on;
\* falls out of the loop into the single-record wrap.
RECURSIVE ScanItems(_, _)
ScanItems(d, i) ==
    IF i > Len(d.v) THEN List(<<d>>)
    ELSE LET key == d.v[i][1]
             value == d.v[i][2]
         IN  IF IsDict(value) /\ HasKey(value, "results")
                 THEN GetKey(value, "results")
             ELSE IF InListKeys(key) /\ IsList(value)
                 THEN value
             ELSE ScanItems(d, i + 1)

\* variant: every non-list Response is wrapped as a single record
_extract_records_wrap_all(d) ==
    IF IsList(d) THEN d
    ELSE IF IsDict(d) THEN ScanItems(d, 1)
    ELSE List(<<d>>)

_extract_records(d) ==
    IF IsList(d) THEN d
    ELSE IF IsDict(d) THEN ScanItems(d, 1)
    ELSE List(<<>>)

----------------------------------------------------------------------------
(* Bounded Responses *)

Scalars == {Null, Num(2), Str("x")}

Rec(id) == Dict(<< <<"id", Str(id)>> >>)
Recs == {Rec("a"), Rec("b")}

SeqsUpTo(S, n) == UNION {[1..k -> S] : k \in 0..n}

RecLists == {List(s) : s \in SeqsUpTo(Recs, MaxRecs)}

\* sub-mappings: paginated envelopes, an envelope whose "results" is not a
\* list, and a plain nested object
SubMaps ==
    {Dict(<< <<"results", l>>, <<"totalCount", Num(2)>> >>) : l \in RecLists}
    \cup {Dict(<< <<"totalCount", Num(2)>>, <<"results", List(<<Rec("a"), Rec("b")>>)>> >>),
          Dict(<< <<"results", Num(2)>> >>),
          Dict(<< <<"name", Str("x")>> >>)}

EntryKeys == {"accounts", "results", "allX", "totalCount", "id"}
EntryValues == Scalars \cup RecLists \cup SubMaps
Entries == {<<k, x>> : k \in EntryKeys, x \in EntryValues}

DistinctKeys(s) == \A i, j \in 1..Len(s) : i # j => s[i][1] # s[j][1]

Mappings == {Dict(s) : s \in {e \in SeqsUpTo(Entries, MaxEntries) : DistinctKeys(e)}}

Responses == Scalars \cup RecLists \cup {List(<<Num(2), Str("x")>>)} \cup Mappings

----------------------------------------------------------------------------
(* Text *)

\* A Python str that is written out is the sequence of its characters; a run
\* of characters that no writer or reader treats specially is one element.
NL == "\n"
CR == "\r"
SP == " "
QUOTE == "\""
BSL == "\\"
COMMA == ","

\* the characters of a str of the bounded inputs
Chars(s) ==
    CASE s = "" -> <<>>
      [] s = " " -> <<SP>>
      [] s = "p\nq" -> <<"p", NL, "q">>
      [] OTHER -> <<s>>

\* a str built at run time, kept as its characters
Text(cs) == [t |-> "text", v |-> cs]

RECURSIVE Concat(_)
Concat(ss) == IF ss = <<>> THEN <<>> ELSE Head(ss) \o Concat(Tail(ss))

\* sep.join(ss)
RECURSIVE Join(_, _)
Join(sep, ss) ==
    IF ss = <<>> THEN <<>>
    ELSE IF Len(ss) = 1 THEN ss[1]
    ELSE ss[1] \o sep \o Join(sep, Tail(ss))

\* json.dumps of a str: quoted, with the quote, the backslash and the control
\* characters escaped
json_escape(c) ==
    CASE c = NL -> <<BSL, "n">>
      [] c = CR -> <<BSL, "r">>
      [] c = QUOTE -> <<BSL, QUOTE>>
      [] c = BSL -> <<BSL, BSL>>
      [] OTHER -> <<c>>

json_string(cs) ==
    <<QUOTE>> \o Concat([i \in 1..Len(cs) |-> json_escape(cs[i])]) \o <<QUOTE>>

\* json.dumps(x, default=str) with the default separators ", " and ": "
RECURSIVE json_dumps(_)
json_dumps(x) ==
    CASE x.t = "null" -> <<"null">>
      [] x.t = "num" -> <<ToString(x.v)>>
      [] x.t = "str" -> json_string(Chars(x.v))
      [] x.t = "text" -> json_string(x.v)
      [] x.t = "list" ->
            <<"[">> \o Join(<<COMMA, SP>>,
                            [i \in 1..Len(x.v) |-> json_dumps(x.v[i])])
                    \o <<"]">>
      [] x.t = "dict" ->
            <<"{">> \o Join(<<COMMA, SP>>,
                            [i \in 1..Len(x.v) |->
                                json_string(Chars(x.v[i][1])) \o <<":", SP>>
                                    \o json_dumps(x.v[i][2])])
                    \o <<"}">>

\* click.echo(message) writes the message and a newline
Written(msgs) == Concat([i \in 1..Len(msgs) |-> msgs[i] \o <<NL>>])

\* "\n" followed by the indentation of nesting level `level`, two spaces each
NewlineIndent(level) == <<NL>> \o [i \in 1..(2 * level) |-> SP]

\* json.dumps(x, indent=2): one item per line, "," and ": " as separators
RECURSIVE json_dumps_indent(_, _)
json_dumps_indent(x, level) ==
    CASE x.t = "list" /\ x.v # <<>> ->
            <<"[">> \o NewlineIndent(level + 1)
                \o Join(<<COMMA>> \o NewlineIndent(level + 1),
                        [i \in 1..Len(x.v) |-> json_dumps_indent(x.v[i], level + 1)])
                \o NewlineIndent(level) \o <<"]">>
      [] x.t = "dict" /\ x.v # <<>> ->
            <<"{">> \o NewlineIndent(level + 1)
                \o Join(<<COMMA>> \o NewlineIndent(level + 1),
                        [i \in 1..Len(x.v) |->
                            json_string(Chars(x.v[i][1])) \o <<":", SP>>
                                \o json_dumps_indent(x.v[i][2], level + 1)])
                \o NewlineIndent(level) \o <<"}">>
      [] OTHER -> json_dumps(x)

\* str(x) of a scalar
str(x) ==
    CASE x.t = "null" -> <<"None">>
      [] x.t = "num" -> <<ToString(x.v)>>
      [] x.t = "str" -> Chars(x.v)
      [] x.t = "text" -> x.v

----------------------------------------------------------------------------
(* Record flattener *)

\* d[k] = v on the pairs of a dict under construction: a key already present
\* keeps its position and takes the new value
SetItem(pairs, k, v) ==
    IF \E i \in 1..Len(pairs) : pairs[i][1] = k
        THEN [i \in 1..Len(pairs) |-> IF pairs[i][1] = k THEN <<k, v>> ELSE pairs[i]]
    ELSE Append(pairs, <<k, v>>)

\* dict(items)
RECURSIVE dict(_, _)
dict(pairs, items) ==
    IF items = <<>> THEN pairs
    ELSE dict(SetItem(pairs, Head(items)[1], Head(items)[2]), Tail(items))

RECURSIVE _flatten_dict(_, _, _)
RECURSIVE FlattenItems(_, _, _, _)

\* variant: a list value is kept as it is
FlattenItems_keep_lists(d, parent_key, sep, i) ==
    IF i > Len(d.v) THEN <<>>
    ELSE LET k == d.v[i][1]
             v == d.v[i][2]
             new_key == IF parent_key # "" THEN parent_key \o sep \o k ELSE k
             here == IF IsDict(v) THEN _flatten_dict(v, new_key, sep).v
                     ELSE << <<new_key, v>> >>
         IN  here \o FlattenItems(d, parent_key, sep, i + 1)

\* variant: every list value, the empty one too, becomes its JSON text
FlattenItems_always_dumps(d, parent_key, sep, i) ==
    IF i > Len(d.v) THEN <<>>
    ELSE LET k == d.v[i][1]
             v == d.v[i][2]
             new_key == IF parent_key # "" THEN parent_key \o sep \o k ELSE k
             here == IF IsDict(v) THEN _flatten_dict(v, new_key, sep).v
                     ELSE IF IsList(v) THEN << <<new_key, Text(json_dumps(v))>> >>
                     ELSE << <<new_key, v>> >>
         IN  here \o FlattenItems(d, parent_key, sep, i + 1)

\* the for loop of _flatten_dict over d.items(), from entry i on: the items
\* it appends or extends, in order
FlattenItems(d, parent_key, sep, i) ==
    IF i > Len(d.v) THEN <<>>
    ELSE LET k == d.v[i][1]
             v == d.v[i][2]
             new_key == IF parent_key # "" THEN parent_key \o sep \o k ELSE k
             here == IF IsDict(v) THEN _flatten_dict(v, new_key, sep).v
                     ELSE IF IsList(v)
                         THEN << <<new_key, IF v.v # <<>> THEN Text(json_dumps(v))
                                            ELSE Str("")>> >>
                     ELSE << <<new_key, v>> >>
         IN  here \o FlattenItems(d, parent_key, sep, i + 1)

_flatten_dict(d, parent_key, sep) ==
    Dict(dict(<<>>, FlattenItems(d, parent_key, sep, 1)))

----------------------------------------------------------------------------
(* Bounded records for the flattener *)

\* leaves: scalars, the empty list, a list of scalars, a list holding a mapping
Leaves == Scalars \cup {List(<<>>), List(<<Num(2), Str("x")>>),
                        List(<<Dict(<< <<"c", Null>> >>)>>)}

\* mappings nested one and two levels deep, and one whose own keys collide
\* once flattened
Nested1 == {Dict(<<>>)} \cup {Dict(<< <<"b", x>> >>) : x \in Leaves}
Nested2 == {Dict(<< <<"b", d>> >>) : d \in Nested1}
             \cup {Dict(<< <<"b", Dict(<< <<"c", Num(2)>> >>)>>, <<"b.c", Str("x")>> >>)}

FieldKeys == {"a", "b", "a.b"}
FieldValues == Leaves \cup Nested1 \cup Nested2
Fields == {<<k, x>> : k \in FieldKeys, x \in FieldValues}

FlatRecords == {Dict(s) : s \in {e \in SeqsUpTo(Fields, MaxFields) : DistinctKeys(e)}}

----------------------------------------------------------------------------
(* Renderers: jsonl, csv, text *)

\* `for record in records`: the elements of a list, the characters of a str,
\* the keys of a mapping; None and a number are not iterable (TypeError)
Iterable(x) == x.t \in {"list", "str", "dict"}
Elements(x) ==
    CASE x.t = "list" -> x.v
      [] x.t = "str" -> [i \in 1..Len(Chars(x.v)) |-> Str(Chars(x.v)[i])]
      [] x.t = "dict" -> [i \in 1..Len(x.v) |-> Str(x.v[i][1])]

\* `not x`
Falsy(x) ==
    \/ x.t = "null"
    \/ x.t = "num" /\ x.v = 0
    \/ x.t = "str" /\ x.v = ""
    \/ x.t \in {"list", "dict", "text"} /\ x.v = <<>>

\* what a renderer leaves behind: the messages given to click.echo, in order,
\* or a TypeError that left it
Echoed(rs, msgs) == [records |-> rs, stdout |-> msgs, raised |-> FALSE]
TypeError(rs) == [records |-> rs, stdout |-> <<>>, raised |-> TRUE]

\* variant: the whole record list is written as one JSON array
output_jsonl_one_array(d) ==
    LET rs == _extract_records(d) IN
    IF ~Iterable(rs) THEN TypeError(rs)
    ELSE Echoed(rs, <<json_dumps(List(Elements(rs)))>>)

output_jsonl(d) ==
    LET rs == _extract_records(d) IN
    IF ~Iterable(rs) THEN TypeError(rs)
    ELSE Echoed(rs, [i \in 1..Len(Elements(rs)) |-> json_dumps(Elements(rs)[i])])

\* Python's order on the keys the bounded records flatten to
KeyOrder == <<"a", "a.b", "a.b.b", "a.b.c", "b", "b.b", "b.b.b", "b.b.c", "value">>
KeyRank(k) == CHOOSE i \in 1..Len(KeyOrder) : KeyOrder[i] = k

\* sorted(S) for a set of keys
RECURSIVE sorted(_)
sorted(S) ==
    IF S = {} THEN <<>>
    ELSE LET least == CHOOSE k \in S : \A o \in S : KeyRank(k) <= KeyRank(o)
         IN  <<least>> \o sorted(S \ {least})

Keys(d) == {d.v[i][1] : i \in 1..Len(d.v)}

\* csv.writer with the excel dialect, QUOTE_MINIMAL: a field holding the
\* delimiter, the quote character or a line break is quoted, with quotes
\* doubled; so is an empty field that is alone in its row
csv_field(cs, alone) ==
    IF (\E i \in 1..Len(cs) : cs[i] \in {COMMA, QUOTE, CR, NL}) \/ (alone /\ cs = <<>>)
        THEN <<QUOTE>>
             \o Concat([i \in 1..Len(cs) |->
                           IF cs[i] = QUOTE THEN <<QUOTE, QUOTE>> ELSE <<cs[i]>>])
             \o <<QUOTE>>
    ELSE cs

writerow(fields) ==
    Join(<<COMMA>>, [i \in 1..Len(fields) |-> csv_field(fields[i], Len(fields) = 1)])
        \o <<CR, NL>>

\* str.rstrip(): trailing whitespace removed
RECURSIVE rstrip(_)
rstrip(cs) ==
    IF cs # <<>> /\ cs[Len(cs)] \in {SP, NL, CR}
        THEN rstrip(SubSeq(cs, 1, Len(cs) - 1))
    ELSE cs

\* the row DictWriter writes for a flattened record: str(v), "" for None and
\* for a column the record does not have
RowOf(fl, fieldnames) ==
    [j \in 1..Len(fieldnames) |->
        IF ~HasKey(fl, fieldnames[j]) THEN <<>>
        ELSE IF GetKey(fl, fieldnames[j]) = Null THEN <<>>
        ELSE str(GetKey(fl, fieldnames[j]))]

\* variant: no early return for an empty record list
output_csv_no_return(d) ==
    LET rs == _extract_records(d) IN
    IF ~Iterable(rs) THEN TypeError(rs)
    ELSE LET els == Elements(rs)
             flattened == [i \in 1..Len(els) |->
                              IF IsDict(els[i]) THEN _flatten_dict(els[i], "", ".")
                              ELSE Dict(<< <<"value", els[i]>> >>)]
             all_keys == UNION {Keys(flattened[i]) : i \in 1..Len(flattened)}
             fieldnames == sorted(all_keys)
             header == writerow([j \in 1..Len(fieldnames) |-> Chars(fieldnames[j])])
             rows == Concat([i \in 1..Len(flattened) |->
                                writerow(RowOf(flattened[i], fieldnames))])
         IN  Echoed(rs, <<rstrip(header \o rows)>>)

output_csv(d) ==
    LET rs == _extract_records(d) IN
    IF Falsy(rs) THEN Echoed(rs, <<>>)
    ELSE IF ~Iterable(rs) THEN TypeError(rs)
    ELSE LET els == Elements(rs)
             flattened == [i \in 1..Len(els) |->
                              IF IsDict(els[i]) THEN _flatten_dict(els[i], "", ".")
                              ELSE Dict(<< <<"value", els[i]>> >>)]
             all_keys == UNION {Keys(flattened[i]) : i \in 1..Len(flattened)}
             fieldnames == sorted(all_keys)
             header == writerow([j \in 1..Len(fieldnames) |-> Chars(fieldnames[j])])
             rows == Concat([i \in 1..Len(flattened) |->
                                writerow(RowOf(flattened[i], fieldnames))])
         IN  Echoed(rs, <<rstrip(header \o rows)>>)

\* the lines of one record
TextLines(record) ==
    IF IsDict(record)
        THEN LET fl == _flatten_dict(record, "", ".")
                 ks == sorted(Keys(fl))
             IN  [j \in 1..Len(ks) |->
                     Chars(ks[j]) \o <<"=">>
                         \o (IF GetKey(fl, ks[j]) = Null THEN <<>>
                             ELSE str(GetKey(fl, ks[j])))]
    ELSE <<str(record)>>

output_text(d) ==
    LET rs == _extract_records(d) IN
    IF ~Iterable(rs) THEN TypeError(rs)
    ELSE Echoed(rs, Concat([i \in 1..Len(Elements(rs)) |->
                               (IF i > 1 THEN << <<"---">> >> ELSE <<>>)
                                   \o TextLines(Elements(rs)[i])]))

----------------------------------------------------------------------------
(* Bounded Responses for the renderers *)

RenderValues == Scalars \cup {Str(" "), Str("p\nq"), Str(""),
                              List(<<>>), List(<<Num(2), Str("x")>>),
                              Dict(<< <<"b", Num(2)>> >>)}

\* records: no field, one field, two fields out of key order, and scalars
RenderRecs ==
    {Dict(<<>>)}
    \cup {Dict(<< <<k, x>> >>) : k \in {"a", "b"}, x \in RenderValues}
    \cup {Dict(<< <<"b", Str("x")>>, <<"a", Num(2)>> >>),
          Dict(<< <<"b", Null>>, <<"a", Str("x")>> >>)}
    \cup {Num(2), Str("x")}

RenderLists == {List(s) : s \in SeqsUpTo(RenderRecs, MaxRecs)}

\* a list, a list under an allow-listed key or in a paginated envelope, a
\* single record, a scalar, and envelopes whose "results" is not a list
RenderInputs ==
    RenderLists
    \cup {Dict(<< <<"accounts", List(s)>> >>) : s \in SeqsUpTo(RenderRecs, 1)}
    \cup {Dict(<< <<"allX", Dict(<< <<"results", List(s)>>, <<"totalCount", Num(2)>> >>)>> >>) :
             s \in SeqsUpTo(RenderRecs, 1)}
    \cup {r \in RenderRecs : IsDict(r)}
    \cup {Num(2)}
    \cup {Dict(<< <<"allX", Dict(<< <<"results", x>> >>)>> >>) : x \in Scalars}

----------------------------------------------------------------------------
(* Exit statuses and error codes *)

SUCCESS == 0
GENERAL_ERROR == 1
AUTH_ERROR == 2
NOT_FOUND == 3
VALIDATION_ERROR == 4
API_ERROR == 5
MUTATION_BLOCKED == 6

None == "None"        \* Python None
NoError == "NoError"

\* class ErrorCode
ErrorCodes == {"AUTH_REQUIRED", "AUTH_FAILED", "AUTH_MFA_REQUIRED",
               "AUTH_MFA_FAILED", "AUTH_INVALID_TOKEN",
               "VALIDATION_MISSING_FIELD", "VALIDATION_INVALID_VALUE",
               "VALIDATION_INVALID_DATE", "API_ERROR", "API_TIMEOUT",
               "API_RATE_LIMIT", "NOT_FOUND", "ALREADY_EXISTS",
               "MUTATION_BLOCKED", "UNKNOWN_ERROR"}

\* class ExitCode
ExitCodes == {SUCCESS, GENERAL_ERROR, AUTH_ERROR, NOT_FOUND, VALIDATION_ERROR,
              API_ERROR, MUTATION_BLOCKED}
NoEnvelope == <<>>    \* nothing written to standard error

\* variant: the details field is always written, null when there is none
output_error_always_details(code, message, details, exit_code) ==
    LET error_data ==
            Dict(<< <<"error",
                 Dict(<< <<"code", Str(code)>>, <<"message", Str(message)>>,
                         <<"details", IF details = None THEN Null
                                      ELSE Str(details)>> >>)>> >>)
    IN  [errCode |-> code, exitCode |-> exit_code,
         stderr |-> Written(<<json_dumps_indent(error_data, 0)>>)]

\* output_error: error_data = {"error": {"code", "message"}}, "details" added
\* `if details:`; click.echo(json.dumps(error_data, indent=2), err=True), then
\* sys.exit(exit_code).  details: None or a str.
output_error(code, message, details, exit_code) ==
    LET error_data ==
            Dict(<< <<"error",
                 Dict(<< <<"code", Str(code)>>, <<"message", Str(message)>> >>
                      \o (IF details # None /\ details # ""
                              THEN << <<"details", Str(details)>> >>
                          ELSE <<>>))>> >>)
    IN  [errCode |-> code, exitCode |-> exit_code,
         stderr |-> Written(<<json_dumps_indent(error_data, 0)>>)]

----------------------------------------------------------------------------
(* Credential backends *)

Absent == "Absent"    \* no session file on disk
NoHeader == "NoHeader"
Tokens == {"t1", "t2"}

\* Python truthiness of an optional string
Truthy(tok) == tok # None /\ tok # ""

\* what a fresh MonarchMoney(session_file=...) object carries
NewClient == [token |-> None, auth |-> NoHeader]

\* keyring.set_password raised or not (setRaises is the backend's choice)
save_token_to_keychain(kc, token, setRaises) ==
    IF setRaises THEN [ok |-> FALSE, keychain |-> kc]
    ELSE [ok |-> TRUE, keychain |-> token]

\* keyring.get_password: the stored password, None when nothing is stored
load_token_from_keychain(kc, getRaises) ==
    IF getRaises THEN None ELSE kc

\* keyring.delete_password raises PasswordDeleteError when nothing is stored,
\* and may fail on a backend error (delRaises)
delete_token_from_keychain(kc, delRaises) ==
    IF kc = None \/ delRaises THEN [ok |-> FALSE, keychain |-> kc]
    ELSE [ok |-> TRUE, keychain |-> None]

\* variant: the keychain token is set but not put in the headers
get_client_no_header(kc, f, e) ==
    LET token == load_token_from_keychain(kc, e.getRaises) IN
    IF Truthy(token)
        THEN [mm |-> [token |-> token, auth |-> NoHeader],
              calls |-> <<"keyring.get_password", "set_token">>,
              raised |-> FALSE]
    ELSE IF f = Absent
        THEN [mm |-> NewClient,
              calls |-> <<"keyring.get_password", "exists">>,
              raised |-> FALSE]
    ELSE IF e.loadRaises
        THEN [mm |-> NewClient,
              calls |-> <<"keyring.get_password", "exists", "load_session">>,
              raised |-> FALSE]
    ELSE [mm |-> [token |-> f, auth |-> "Token " \o f],
          calls |-> <<"keyring.get_password", "exists", "load_session">>,
          raised |-> FALSE]

\* variant: load_session is called outside the try block
get_client_unguarded(kc, f, e) ==
    LET token == load_token_from_keychain(kc, e.getRaises) IN
    IF Truthy(token)
        THEN [mm |-> [token |-> token, auth |-> "Token " \o token],
              calls |-> <<"keyring.get_password", "set_token">>,
              raised |-> FALSE]
    ELSE IF f = Absent
        THEN [mm |-> NewClient,
              calls |-> <<"keyring.get_password", "exists">>,
              raised |-> FALSE]
    ELSE IF e.loadRaises
        THEN [mm |-> NewClient,
              calls |-> <<"keyring.get_password", "exists", "load_session">>,
              raised |-> TRUE]
    ELSE [mm |-> [token |-> f, auth |-> "Token " \o f],
          calls |-> <<"keyring.get_password", "exists", "load_session">>,
          raised |-> FALSE]

\* e: [getRaises, loadRaises], the outcomes of the backend calls; exists() on
\* the session file tells whether the file is there
get_client(kc, f, e) ==
    LET token == load_token_from_keychain(kc, e.getRaises) IN
    IF Truthy(token)
        THEN [mm |-> [token |-> token, auth |-> "Token " \o token],
              calls |-> <<"keyring.get_password", "set_token">>,
              raised |-> FALSE]
    ELSE IF f = Absent
        THEN [mm |-> NewClient,
              calls |-> <<"keyring.get_password", "exists">>,
              raised |-> FALSE]
    ELSE IF e.loadRaises
        THEN [mm |-> NewClient,
              calls |-> <<"keyring.get_password", "exists", "load_session">>,
              raised |-> FALSE]
    ELSE [mm |-> [token |-> f, auth |-> "Token " \o f],
          calls |-> <<"keyring.get_password", "exists", "load_session">>,
          raised |-> FALSE]

ClientEnvs == [getRaises : BOOLEAN, loadRaises : BOOLEAN]

----------------------------------------------------------------------------
(* auth login *)

\* variant: the session file is saved whether or not the keychain took the
\* token
persist_always_file(kc, f, tok, label, e) ==
    LET tried == Truthy(tok)
        sv == save_token_to_keychain(kc, tok, e.setRaises)
        pre == IF tried THEN <<"keyring.set_password">> ELSE <<>>
        kc2 == IF tried THEN sv.keychain ELSE kc
    IN  IF e.mkdirRaises
            THEN [keychain |-> kc2, sessionFile |-> f,
                  calls |-> pre \o <<"mkdir">>,
                  stdout |-> <<>>, raised |-> TRUE]
        ELSE IF e.saveRaises
            THEN [keychain |-> kc2, sessionFile |-> f,
                  calls |-> pre \o <<"mkdir", "save_session">>,
                  stdout |-> <<>>, raised |-> TRUE]
        ELSE [keychain |-> kc2, sessionFile |-> tok,
              calls |-> pre \o <<"mkdir", "save_session">>,
              stdout |-> <<label \o " saved to file.">>, raised |-> FALSE]

\* The persist step that follows every way of obtaining a token:
\*   if [mm.token and] save_token_to_keychain(tok): echo "... keychain."
\*   else: _ensure_config_dir(); mm.save_session(file); echo "... file"
\* e: [setRaises, mkdirRaises, saveRaises]; label is "Token" or "Session".
persist(kc, f, tok, label, e) ==
    LET tried == Truthy(tok)
        sv == save_token_to_keychain(kc, tok, e.setRaises)
        pre == IF tried THEN <<"keyring.set_password">> ELSE <<>>
    IN  IF tried /\ sv.ok
            THEN [keychain |-> sv.keychain, sessionFile |-> f, calls |-> pre,
                  stdout |-> <<label \o " saved to system keychain.">>,
                  raised |-> FALSE]
        ELSE IF e.mkdirRaises
            THEN [keychain |-> kc, sessionFile |-> f,
                  calls |-> pre \o <<"mkdir">>,
                  stdout |-> <<>>, raised |-> TRUE]
        ELSE IF e.saveRaises
            THEN [keychain |-> kc, sessionFile |-> f,
                  calls |-> pre \o <<"mkdir", "save_session">>,
                  stdout |-> <<>>, raised |-> TRUE]
        ELSE [keychain |-> kc, sessionFile |-> tok,
              calls |-> pre \o <<"mkdir", "save_session">>,
              stdout |-> <<label \o " saved to file.">>, raised |-> FALSE]

\* an exception that leaves the command: traceback, interpreter status 1
Uncaught(kc, f, mm, cs, out) ==
    [keychain |-> kc, sessionFile |-> f, mm |-> mm, calls |-> cs,
     stdout |-> out, raised |-> TRUE, errCode |-> NoError,
     stderr |-> NoEnvelope, exitCode |-> GENERAL_ERROR]

\* output_error(...) reached: envelope on stderr and sys.exit
Failed(kc, f, mm, cs, out, code, message, details, status) ==
    [keychain |-> kc, sessionFile |-> f, mm |-> mm, calls |-> cs,
     stdout |-> out, raised |-> FALSE]
    @@ output_error(code, message, details, status)

\* the command returned normally
Returned(kc, f, mm, cs, out) ==
    [keychain |-> kc, sessionFile |-> f, mm |-> mm, calls |-> cs,
     stdout |-> out, raised |-> FALSE, errCode |-> NoError,
     stderr |-> NoEnvelope, exitCode |-> SUCCESS]

\* str(e) of the exception a try block caught
ExcText == "str(e)"

\* One of the three service logins followed by persist. caught: the call and
\* the persist step sit inside try/except Exception -> output_error(failCode).
\* e.auth: "raise", or mm.token after the service call returned.
\* variant: a failure of the service call is swallowed
ServiceLogin_swallowed(kc, f, op, caught, failCode, failMessage, e) ==
    LET mm == [token |-> e.auth, auth |-> NoHeader]
        p == persist(kc, f, e.auth, "Session", e)
    IN  IF e.auth = "raise"
            THEN Returned(kc, f, NewClient, <<op>>, <<"Login successful!">>)
        ELSE IF p.raised
            THEN IF caught
                 THEN Failed(p.keychain, p.sessionFile, mm, <<op>> \o p.calls,
                             <<>>, failCode, failMessage, ExcText, AUTH_ERROR)
                 ELSE Uncaught(p.keychain, p.sessionFile, mm, <<op>> \o p.calls, <<>>)
        ELSE Returned(p.keychain, p.sessionFile, mm, <<op>> \o p.calls,
                      p.stdout \o <<"Login successful!">>)

ServiceLogin(kc, f, op, caught, failCode, failMessage, e) ==
    LET mm == [token |-> e.auth, auth |-> NoHeader]
        p == persist(kc, f, e.auth, "Session", e)
    IN  IF e.auth = "raise"
            THEN IF caught
                 THEN Failed(kc, f, NewClient, <<op>>, <<>>, failCode,
                             failMessage, ExcText, AUTH_ERROR)
                 ELSE Uncaught(kc, f, NewClient, <<op>>, <<>>)
        ELSE IF p.raised
            THEN IF caught
                 THEN Failed(p.keychain, p.sessionFile, mm, <<op>> \o p.calls,
                             <<>>, failCode, failMessage, ExcText, AUTH_ERROR)
                 ELSE Uncaught(p.keychain, p.sessionFile, mm, <<op>> \o p.calls, <<>>)
        ELSE Returned(p.keychain, p.sessionFile, mm, <<op>> \o p.calls,
                      p.stdout \o <<"Login successful!">>)

\* variant: email and password are not checked before the service is called
auth_login_unvalidated(kc, f, in, e) ==
    IF Truthy(in.token) THEN
        LET mm == [token |-> in.token, auth |-> NoHeader]
            p == persist(kc, f, in.token, "Token", e)
        IN  IF p.raised
                THEN Uncaught(p.keychain, p.sessionFile, mm,
                              <<"set_token">> \o p.calls, <<>>)
            ELSE Returned(p.keychain, p.sessionFile, mm,
                          <<"set_token">> \o p.calls, p.stdout)
    ELSE IF in.mfa_code THEN
        ServiceLogin(kc, f, "multi_factor_authenticate", TRUE,
                     "AUTH_MFA_FAILED", "MFA login failed", e)
    ELSE IF in.interactive THEN
        ServiceLogin(kc, f, "interactive_login", FALSE, "", "", e)
    ELSE
        ServiceLogin(kc, f, "login", TRUE, "AUTH_FAILED", "Login failed", e)

\* in: [token, mfa_code, interactive, creds]; creds: email and password given
auth_login(kc, f, in, e) ==
    IF Truthy(in.token) THEN
        LET mm == [token |-> in.token, auth |-> NoHeader]
            p == persist(kc, f, in.token, "Token", e)
        IN  IF p.raised
                THEN Uncaught(p.keychain, p.sessionFile, mm,
                              <<"set_token">> \o p.calls, <<>>)
            ELSE Returned(p.keychain, p.sessionFile, mm,
                          <<"set_token">> \o p.calls, p.stdout)
    ELSE IF in.mfa_code THEN
        IF ~in.creds
            THEN Failed(kc, f, NewClient, <<>>, <<>>,
                        "VALIDATION_MISSING_FIELD",
                        "--email and --password required with --mfa-code",
                        "Provide both email and password when using MFA code authentication.",
                        VALIDATION_ERROR)
        ELSE ServiceLogin(kc, f, "multi_factor_authenticate", TRUE,
                          "AUTH_MFA_FAILED", "MFA login failed", e)
    ELSE IF in.interactive THEN
        ServiceLogin(kc, f, "interactive_login", FALSE, "", "", e)
    ELSE
        IF ~in.creds
            THEN Failed(kc, f, NewClient, <<>>, <<>>,
                        "VALIDATION_MISSING_FIELD",
                        "--email and --password required for non-interactive login",
                        "Provide both email and password for non-interactive authentication.",
                        VALIDATION_ERROR)
        ELSE ServiceLogin(kc, f, "login", TRUE, "AUTH_FAILED", "Login failed", e)

LoginInputs == [token : {None, ""} \cup Tokens, mfa_code : BOOLEAN,
                interactive : BOOLEAN, creds : BOOLEAN]
\* The outcome of a backend call that is not made is fixed to FALSE, so that
\* two choices of the environment differ only where the command can tell.
LoginEnvs == {e \in [auth : {"raise", None} \cup Tokens, setRaises : BOOLEAN,
                     mkdirRaises : BOOLEAN, saveRaises : BOOLEAN] :
                 /\ ~e.setRaises => ~e.mkdirRaises
                 /\ e.mkdirRaises => ~e.saveRaises
                 /\ ~e.setRaises => ~e.saveRaises
                 /\ e.auth = "raise" => ~e.setRaises}

\* the token import ignores --mfa-code and --no-interactive, which may come
\* with it; email and password are left out then, and no service login is
\* chosen for it
LoginChoice(in, e) ==
    Truthy(in.token) => ~in.creds /\ e.auth = None

----------------------------------------------------------------------------
(* auth logout *)

\* e: [delRaises, unlinkRaises]
auth_logout(kc, f, e) ==
    LET del == delete_token_from_keychain(kc, e.delRaises)
        file_deleted == f # Absent /\ ~e.unlinkRaises
        cs == <<"keyring.delete_password", "exists">>
                 \o (IF f # Absent THEN <<"unlink">> ELSE <<>>)
    IN  Returned(del.keychain, IF file_deleted THEN Absent ELSE f,
                 NewClient, cs,
                 <<IF del.ok \/ file_deleted THEN "Session deleted."
                   ELSE "No session found.">>)

LogoutEnvs == [delRaises : BOOLEAN, unlinkRaises : BOOLEAN]

\* auth status: the keychain lookup first; the session file is loaded only
\* when that lookup yields nothing, and counts when the loaded client has a
\* token.  e: ClientEnvs
auth_status(kc, f, e) ==
    LET token == load_token_from_keychain(kc, e.getRaises) IN
    IF Truthy(token)
        THEN Returned(kc, f, NewClient, <<"keyring.get_password">>,
                      <<"Authenticated (keychain)">>)
    ELSE IF f = Absent
        THEN Returned(kc, f, NewClient, <<"keyring.get_password", "exists">>,
                      <<"Not authenticated">>)
    ELSE IF e.loadRaises
        THEN Returned(kc, f, NewClient,
                      <<"keyring.get_password", "exists", "load_session">>,
                      <<"Not authenticated">>)
    ELSE Returned(kc, f, [token |-> f, auth |-> "Token " \o f],
                  <<"keyring.get_password", "exists", "load_session">>,
                  <<IF Truthy(f) THEN "Authenticated (file)"
                    ELSE "Not authenticated">>)

----------------------------------------------------------------------------
(* Commands behind the mutation gate *)

GatedCommands == {"accounts create", "accounts update", "accounts delete",
                  "transactions create", "transactions update",
                  "transactions delete", "categories create",
                  "categories delete", "tags create", "tags set",
                  "budgets set"}

\* commands that also carry @click.confirmation_option(prompt=...)
ConfirmedCommands == {"accounts delete", "transactions delete",
                      "categories delete"}

\* the MonarchMoney method each command body awaits
ServiceOp(c) ==
    CASE c = "accounts list" -> "get_accounts"
      [] c = "accounts create" -> "create_manual_account"
      [] c = "accounts update" -> "update_account"
      [] c = "accounts delete" -> "delete_account"
      [] c = "transactions create" -> "create_transaction"
      [] c = "transactions update" -> "update_transaction"
      [] c = "transactions delete" -> "delete_transaction"
      [] c = "categories create" -> "create_transaction_category"
      [] c = "categories delete" -> "delete_transaction_category"
      [] c = "tags create" -> "create_transaction_tag"
      [] c = "tags set" -> "set_transaction_tags"
      [] c = "budgets set" -> "set_budget_amount"

NoArgs == "NoArgs"
CmdArgs == {"id1", "id2"}

\* variant: the flag test is inverted
require_mutations_inverted(allow, a) ==
    [blocked |-> allow, args |-> a]

\* wrapper(*args, **kwargs) of require_mutations: the root context's flag
\* decides between output_error(MUTATION_BLOCKED) and f(*args, **kwargs)
require_mutations(allow, a) ==
    [blocked |-> ~allow, args |-> a]

\* a command body: mm = get_client(); result = run_async(mm.<op>(...));
\* output.  e: ClientEnvs fields and svcRaises.
CommandBody(kc, f, c, a, e) ==
    LET gc == get_client(kc, f, e)
        cs == gc.calls \o <<ServiceOp(c)>>
    IN  IF gc.raised
            THEN Uncaught(kc, f, NewClient, gc.calls, <<>>) @@ [svcArgs |-> NoArgs]
        ELSE IF e.svcRaises
            THEN Uncaught(kc, f, gc.mm, cs, <<>>) @@ [svcArgs |-> a]
        ELSE Returned(kc, f, gc.mm, cs, <<"result">>) @@ [svcArgs |-> a]

\* what click's confirmation option writes to stdout before it reads the
\* answer: the prompt text, the default marker and the suffix, no newline
Prompt(c) ==
    CASE c = "accounts delete" ->
             "Are you sure you want to delete this account? [y/N]: "
      [] c = "transactions delete" ->
             "Are you sure you want to delete this transaction? [y/N]: "
      [] c = "categories delete" ->
             "Are you sure you want to delete this category? [y/N]: "

\* the prompt is shown unless --yes was given
Prompted(c, in) ==
    IF c \in ConfirmedCommands /\ ~in.yes THEN <<Prompt(c)>> ELSE <<>>

\* variant: the credential is resolved before the gate is consulted
GatedInvocation_resolve_first(kc, f, c, in, e) ==
    IF c \in ConfirmedCommands /\ ~in.yes /\ ~in.answer
        THEN [keychain |-> kc, sessionFile |-> f, mm |-> NewClient,
              calls |-> <<>>, stdout |-> Prompted(c, in), raised |-> FALSE,
              errCode |-> NoError, stderr |-> NoEnvelope,
              exitCode |-> GENERAL_ERROR, svcArgs |-> NoArgs]
    ELSE LET g == require_mutations(in.allow, in.a)
             gc == get_client(kc, f, e)
         IN  IF g.blocked
                 THEN Failed(kc, f, gc.mm, gc.calls, Prompted(c, in),
                             "MUTATION_BLOCKED",
                             "This command modifies data. Use --allow-mutations to enable.",
                             "Example: mmoney --allow-mutations accounts create ...",
                             MUTATION_BLOCKED) @@ [svcArgs |-> NoArgs]
             ELSE LET r == CommandBody(kc, f, c, g.args, e) IN
                  [r EXCEPT !.stdout = Prompted(c, in) \o @]

\* variant: a declined confirmation does not abort
GatedInvocation_unconfirmed(kc, f, c, in, e) ==
    LET g == require_mutations(in.allow, in.a) IN
    IF g.blocked
        THEN Failed(kc, f, NewClient, <<>>, Prompted(c, in), "MUTATION_BLOCKED",
                    "This command modifies data. Use --allow-mutations to enable.",
                    "Example: mmoney --allow-mutations accounts create ...",
                    MUTATION_BLOCKED) @@ [svcArgs |-> NoArgs]
    ELSE LET r == CommandBody(kc, f, c, g.args, e) IN
         [r EXCEPT !.stdout = Prompted(c, in) \o @]

\* click processes the parameters (the confirmation option prompts on stdout
\* and its callback aborts on a declined prompt) before it calls the
\* decorated function, which is the gate's wrapper.  in: [allow, yes, answer, a]
GatedInvocation(kc, f, c, in, e) ==
    IF c \in ConfirmedCommands /\ ~in.yes /\ ~in.answer
        THEN [keychain |-> kc, sessionFile |-> f, mm |-> NewClient,
              calls |-> <<>>, stdout |-> Prompted(c, in), raised |-> FALSE,
              errCode |-> NoError, stderr |-> NoEnvelope,
              exitCode |-> GENERAL_ERROR, svcArgs |-> NoArgs]
    ELSE LET g == require_mutations(in.allow, in.a) IN
         IF g.blocked
             THEN Failed(kc, f, NewClient, <<>>, Prompted(c, in),
                         "MUTATION_BLOCKED",
                         "This command modifies data. Use --allow-mutations to enable.",
                         "Example: mmoney --allow-mutations accounts create ...",
                         MUTATION_BLOCKED) @@ [svcArgs |-> NoArgs]
         ELSE LET r == CommandBody(kc, f, c, g.args, e) IN
              [r EXCEPT !.stdout = Prompted(c, in) \o @]

GatedInputs == [allow : BOOLEAN, yes : BOOLEAN, answer : BOOLEAN, a : CmdArgs]
BodyEnvs == [getRaises : BOOLEAN, loadRaises : BOOLEAN, svcRaises : BOOLEAN]
QuietEnv == [getRaises |-> FALSE, loadRaises |-> FALSE, svcRaises |-> FALSE]

\* --yes exists only on the confirmed commands and leaves no prompt to
\* answer; the backends are not called unless the body is reached
GatedChoice(c, in, e) ==
    /\ c \notin ConfirmedCommands => ~in.yes /\ ~in.answer
    /\ in.yes => ~in.answer
    /\ (~in.allow \/ (c \in ConfirmedCommands /\ ~in.yes /\ ~in.answer))
           => e = QuietEnv

----------------------------------------------------------------------------
(* State machine: one action per command invocation *)

NotRun == [t |-> "none", v |-> <<>>]

Init ==
    /\ keychain = None
    /\ sessionFile = Absent
    /\ cmd = "none"
    /\ args = <<>>
    /\ exitCode = SUCCESS
    /\ errCode = NoError
    /\ stdout = <<>>
    /\ calls = <<>>
    /\ raised = FALSE
    /\ client = NewClient
    /\ svcArgs = NoArgs
    /\ data = Null
    /\ records = NotRun
    /\ flat = NotRun
    /\ stderr = NoEnvelope

\* the variables an invocation's outcome record r determines
Outcome(r) ==
    /\ keychain' = r.keychain
    /\ sessionFile' = r.sessionFile
    /\ exitCode' = r.exitCode
    /\ errCode' = r.errCode
    /\ stdout' = r.stdout
    /\ calls' = r.calls
    /\ raised' = r.raised
    /\ client' = r.mm
    /\ stderr' = r.stderr
    /\ UNCHANGED <<data, records, flat>>

AuthLogin ==
    \E in \in LoginInputs, e \in LoginEnvs :
        /\ LoginChoice(in, e)
        /\ cmd' = "auth login"
        /\ args' = [in |-> in, e |-> e]
        /\ svcArgs' = NoArgs
        /\ Outcome(auth_login(keychain, sessionFile, in, e))

AuthLogout ==
    \E e \in LogoutEnvs :
        /\ cmd' = "auth logout"
        /\ args' = [in |-> <<>>, e |-> e]
        /\ svcArgs' = NoArgs
        /\ Outcome(auth_logout(keychain, sessionFile, e))

AccountsList ==
    \E e \in BodyEnvs :
        LET r == CommandBody(keychain, sessionFile, "accounts list", NoArgs, e) IN
        /\ cmd' = "accounts list"
        /\ args' = [in |-> <<>>, e |-> e]
        /\ svcArgs' = r.svcArgs
        /\ Outcome(r)

GatedCommand ==
    \E c \in GatedCommands, in \in GatedInputs, e \in BodyEnvs :
        LET r == GatedInvocation(keychain, sessionFile, c, in, e) IN
        /\ GatedChoice(c, in, e)
        /\ cmd' = c
        /\ args' = [in |-> in, e |-> e]
        /\ svcArgs' = r.svcArgs
        /\ Outcome(r)

AuthStatus ==
    \E e \in ClientEnvs :
        /\ cmd' = "auth status"
        /\ args' = [in |-> <<>>, e |-> e]
        /\ svcArgs' = NoArgs
        /\ Outcome(auth_status(keychain, sessionFile, e))

\* status click ends the process with on a UsageError
USAGE_ERROR == 2

\* A gated command is invoked without a required argument or option: click
\* rejects the command line while it processes the parameters, before any
\* callback of the program runs, prints the usage text and the error to
\* stderr and exits.
MissingParameter ==
    \E c \in GatedCommands :
        /\ cmd' = "usage error"
        /\ args' = [in |-> [c |-> c], e |-> <<>>]
        /\ svcArgs' = NoArgs
        /\ Outcome([keychain |-> keychain, sessionFile |-> sessionFile,
                    mm |-> NewClient, calls |-> <<>>, stdout |-> <<>>,
                    raised |-> FALSE, errCode |-> NoError,
                    stderr |-> Written(<<<<"Usage: mmoney ", c, " ...">>,
                                         <<"Error: Missing parameter">>>>),
                    exitCode |-> USAGE_ERROR])

Next == AuthLogin \/ AuthLogout \/ AccountsList \/ GatedCommand
           \/ MissingParameter \/ AuthStatus

Spec == Init /\ [][Next]_vars

----------------------------------------------------------------------------
(* The normalizer applied to each bounded Response *)

InitNorm ==
    /\ keychain = None
    /\ sessionFile = Absent
    /\ cmd = "none"
    /\ args = <<>>
    /\ exitCode = SUCCESS
    /\ errCode = NoError
    /\ stdout = <<>>
    /\ calls = <<>>
    /\ raised = FALSE
    /\ client = NewClient
    /\ svcArgs = NoArgs
    /\ data \in Responses
    /\ records = NotRun
    /\ flat = NotRun
    /\ stderr = NoEnvelope

ExtractRecords ==
    /\ records = NotRun
    /\ records' = _extract_records(data)
    /\ cmd' = "_extract_records"
    /\ UNCHANGED <<keychain, sessionFile, args, exitCode, errCode, stdout,
                   calls, raised, client, svcArgs, data, flat, stderr>>

NextNorm == ExtractRecords

SpecNorm == InitNorm /\ [][NextNorm]_vars

----------------------------------------------------------------------------
(* The flattener applied to each bounded record *)

InitFlat ==
    /\ keychain = None
    /\ sessionFile = Absent
    /\ cmd = "none"
    /\ args = <<>>
    /\ exitCode = SUCCESS
    /\ errCode = NoError
    /\ stdout = <<>>
    /\ calls = <<>>
    /\ raised = FALSE
    /\ client = NewClient
    /\ svcArgs = NoArgs
    /\ data \in FlatRecords
    /\ records = NotRun
    /\ flat = NotRun
    /\ stderr = NoEnvelope

FlattenDict ==
    /\ flat = NotRun
    /\ flat' = _flatten_dict(data, "", ".")
    /\ cmd' = "_flatten_dict"
    /\ UNCHANGED <<keychain, sessionFile, args, exitCode, errCode, stdout,
                   calls, raised, client, svcArgs, data, records, stderr>>

NextFlat == FlattenDict

SpecFlat == InitFlat /\ [][NextFlat]_vars

----------------------------------------------------------------------------
(* The renderers applied to each bounded Response *)

InitRender ==
    /\ keychain = None
    /\ sessionFile = Absent
    /\ cmd = "none"
    /\ args = <<>>
    /\ exitCode = SUCCESS
    /\ errCode = NoError
    /\ stdout = <<>>
    /\ calls = <<>>
    /\ raised = FALSE
    /\ client = NewClient
    /\ svcArgs = NoArgs
    /\ data \in RenderInputs
    /\ records = NotRun
    /\ flat = NotRun
    /\ stderr = NoEnvelope

Rendered(name, r) ==
    /\ cmd = "none"
    /\ cmd' = name
    /\ records' = r.records
    /\ stdout' = r.stdout
    /\ raised' = r.raised
    /\ UNCHANGED <<keychain, sessionFile, args, exitCode, errCode, calls,
                   client, svcArgs, data, flat, stderr>>

OutputJsonl == Rendered("output_jsonl", output_jsonl(data))
OutputCsv == Rendered("output_csv", output_csv(data))
OutputText == Rendered("output_text", output_text(data))

NextRender == OutputJsonl \/ OutputCsv \/ OutputText

SpecRender == InitRender /\ [][NextRender]_vars

----------------------------------------------------------------------------
(* output_error applied to each bounded call *)

\* details: left out (None), empty, plain, and holding a line break
ErrorInputs == [code : ErrorCodes, message : {"Test message"},
                details : {None, "", "Test details", "p\nq"},
                exit_code : ExitCodes]

InitError ==
    /\ keychain = None
    /\ sessionFile = Absent
    /\ cmd = "none"
    /\ args \in {[in |-> in, e |-> <<>>] : in \in ErrorInputs}
    /\ exitCode = SUCCESS
    /\ errCode = NoError
    /\ stdout = <<>>
    /\ calls = <<>>
    /\ raised = FALSE
    /\ client = NewClient
    /\ svcArgs = NoArgs
    /\ data = Null
    /\ records = NotRun
    /\ flat = NotRun
    /\ stderr = NoEnvelope

OutputError ==
    LET r == output_error(args.in.code, args.in.message, args.in.details,
                          args.in.exit_code) IN
    /\ cmd = "none"
    /\ cmd' = "output_error"
    /\ errCode' = r.errCode
    /\ exitCode' = r.exitCode
    /\ stderr' = r.stderr
    /\ UNCHANGED <<keychain, sessionFile, args, stdout, calls, raised, client,
                   svcArgs, data, records, flat>>

NextError == OutputError

SpecError == InitError /\ [][NextError]_vars

----------------------------------------------------------------------------
(* Properties *)

Count(sq, x) == Cardinality({i \in 1..Len(sq) : sq[i] = x})
Called(x) == \E i \in 1..Len(calls) : calls[i] = x

\* the confirmation prompt of a delete command was declined
Declined == cmd \in ConfirmedCommands /\ ~args.in.yes /\ ~args.in.answer

\* C1: every invocation of a gated command without --allow-mutations ends
\* with exit status 6 and the MUTATION_BLOCKED envelope, and the service
\* operation is not invoked.
C1_BlockedWithoutFlag ==
    (cmd \in GatedCommands /\ ~args.in.allow) =>
        /\ exitCode = MUTATION_BLOCKED
        /\ errCode = "MUTATION_BLOCKED"
        /\ ~Called(ServiceOp(cmd))
        /\ svcArgs = NoArgs

\* C2: when the gate's wrapper runs with --allow-mutations set it emits no
\* error, the body gets the arguments the wrapper received, the service
\* operation is invoked exactly once, and the step changes neither backend.
C2_OpenGateRunsBody ==
    [][(cmd' \in GatedCommands /\ args'.in.allow /\ ~Declined')
          => /\ errCode' = NoError
             /\ exitCode' # MUTATION_BLOCKED
             /\ svcArgs' = args'.in.a
             /\ Count(calls', ServiceOp(cmd')) = 1
             /\ keychain' = keychain
             /\ sessionFile' = sessionFile]_vars

C2_Witness ==
    /\ cmd = "transactions delete"
    /\ args.in.allow /\ ~args.in.yes /\ args.in.answer
    /\ args.in.a = "id2"
    /\ svcArgs = "id2"
    /\ Called("delete_transaction")
    /\ exitCode = SUCCESS

\* the last invocation reached a command body, which starts with get_client()
GetClientRan ==
    /\ cmd \in GatedCommands \cup {"accounts list"}
    /\ Called("keyring.get_password")

\* the keychain lookup of the last get_client() returned a non-empty token
\* (command bodies leave the keychain as they found it)
KeychainYielded == GetClientRan /\ ~args.e.getRaises /\ Truthy(keychain)

\* C3: when the keychain lookup returns a non-empty token, get_client sets it
\* on the client, Authorization is "Token <token>", and the session file is
\* neither probed nor loaded.
C3_KeychainFirst ==
    KeychainYielded =>
        /\ client.token = keychain
        /\ client.auth = "Token " \o keychain
        /\ Called("set_token")
        /\ ~Called("exists")
        /\ ~Called("load_session")

C3_Witness ==
    /\ KeychainYielded
    /\ cmd = "accounts list"
    /\ keychain = "t2"
    /\ sessionFile = "t1"
    /\ client.auth = "Token t2"

\* C4: get_client never raises; when the keychain lookup raises or yields
\* nothing and the session file is missing or cannot be loaded, the client is
\* returned (the body goes on to the service call) with no credential.
C4_ResolveNeverRaises ==
    GetClientRan =>
        /\ Called(ServiceOp(cmd))
        /\ raised => args.e.svcRaises
        /\ ( /\ (args.e.getRaises \/ ~Truthy(keychain))
             /\ (sessionFile = Absent \/ args.e.loadRaises) )
           => client = NewClient

C4_Witness ==
    /\ GetClientRan
    /\ args.e.getRaises
    /\ keychain = "t2"
    /\ sessionFile = "t1"
    /\ args.e.loadRaises
    /\ Called("load_session")
    /\ client = NewClient
    /\ exitCode = SUCCESS

IndexOf(sq, x) == CHOOSE i \in 1..Len(sq) : sq[i] = x

\* the last invocation was a login that obtained a token: an imported
\* --token, or a service login that returned
LoginObtained ==
    /\ cmd = "auth login"
    /\ \/ Truthy(args.in.token)
       \/ /\ args.e.auth # "raise"
          /\ \/ Called("multi_factor_authenticate")
             \/ Called("interactive_login")
             \/ Called("login")

ObtainedToken == IF Truthy(args.in.token) THEN args.in.token ELSE args.e.auth

KeychainWritten == Called("keyring.set_password") /\ ~args.e.setRaises

\* C5: on every login path that obtains a token the keychain write comes
\* first; the session-file write (_ensure_config_dir, then save_session) is
\* made if and only if the keychain write did not succeed, i.e. it failed or
\* the token was empty; a successful keychain write leaves the file alone.
C5_FileOnlyAsFallback ==
    [][LoginObtained' =>
          /\ Truthy(ObtainedToken') <=> Called("keyring.set_password")'
          /\ Called("mkdir")' <=> ~KeychainWritten'
          /\ (Called("mkdir")' /\ Called("keyring.set_password")')
                => IndexOf(calls', "keyring.set_password") < IndexOf(calls', "mkdir")
          /\ KeychainWritten' =>
                /\ ~Called("save_session")'
                /\ sessionFile' = sessionFile
                /\ keychain' = ObtainedToken'
          /\ (~KeychainWritten' /\ ~args'.e.mkdirRaises /\ ~args'.e.saveRaises)
                => /\ Called("save_session")'
                   /\ sessionFile' = ObtainedToken'
                   /\ keychain' = keychain]_vars

C5_Witness ==
    /\ LoginObtained
    /\ Called("login")
    /\ args.e.auth = "t2"
    /\ args.e.setRaises
    /\ calls = <<"login", "keyring.set_password", "mkdir", "save_session">>
    /\ sessionFile = "t2"
    /\ keychain = "t1"
    /\ exitCode = SUCCESS

\* C6: persisting a credential never raises: on every login path that
\* obtained a token the command ends without an escaping exception, also
\* when the keychain write and the fallback file write both fail.
C6_PersistNeverRaises ==
    ( /\ LoginObtained
      /\ Called("keyring.set_password") /\ args.e.setRaises
      /\ args.e.mkdirRaises \/ args.e.saveRaises )
        => ~raised

\* C7: logout does not raise, reports "Session deleted." exactly when a
\* backend held something that was removed, and reports "No session found."
\* only when both backends were already empty.
C7_LogoutReport ==
    [][cmd' = "auth logout" =>
          /\ ~raised'
          /\ stdout' = <<"Session deleted.">>
                <=> \/ keychain # None /\ keychain' = None
                    \/ sessionFile # Absent /\ sessionFile' = Absent
          /\ stdout' = <<"No session found.">>
                => keychain = None /\ sessionFile = Absent]_vars

\* C8: the keychain and the session file never hold a credential at the
\* same time.
C8_AtMostOneBackend ==
    ~(Truthy(keychain) /\ sessionFile \in Tokens)

----------------------------------------------------------------------------
(* Properties of the normalizer *)

\* entry <<key, value>> bears records: an allow-listed key with a list value,
\* or a sub-mapping with a list-valued "results" field
RecordBearing(en) ==
    \/ InListKeys(en[1]) /\ IsList(en[2])
    \/ IsDict(en[2]) /\ HasKey(en[2], "results") /\ IsList(GetKey(en[2], "results"))

BearingList(en) == IF IsList(en[2]) THEN en[2] ELSE GetKey(en[2], "results")

BearingEntries(d) == {i \in 1..Len(d.v) : RecordBearing(d.v[i])}

\* C9: for a mapping with a single record-bearing entry, _extract_records
\* returns exactly that entry's list, whatever the sibling fields are.
C9_SingleBearingEntry ==
    (records # NotRun /\ IsDict(data) /\ Cardinality(BearingEntries(data)) = 1)
        => records = BearingList(data.v[CHOOSE i \in BearingEntries(data) : TRUE])

NestedResults(d) == \E i \in 1..Len(d.v) : IsDict(d.v[i][2]) /\ HasKey(d.v[i][2], "results")
AllowListedList(d) == \E i \in 1..Len(d.v) : InListKeys(d.v[i][1]) /\ IsList(d.v[i][2])

\* C10: a list Response is returned verbatim; a mapping with no entry that
\* nests a "results" field and no allow-listed key with a list value comes
\* back as the one-element list holding the mapping; a scalar or null gives
\* the empty list.
C10_ListWrapEmpty ==
    records # NotRun =>
        /\ IsList(data) => records = data
        /\ (IsDict(data) /\ ~NestedResults(data) /\ ~AllowListedList(data))
              => records = List(<<data>>)
        /\ (~IsList(data) /\ ~IsDict(data)) => records = List(<<>>)

C10_Witness ==
    /\ cmd = "_extract_records"
    /\ data = Dict(<< <<"allX", List(<<Rec("a")>>)>>, <<"accounts", Num(2)>> >>)
    /\ records = List(<<data>>)

----------------------------------------------------------------------------
(* Properties of the flattener *)

Flattened == cmd = "_flatten_dict"

\* C15: flattening a flattened record changes nothing, and a flattened record
\* holds no mapping and no list as a value.
C15_FlattenIdempotent ==
    Flattened =>
        /\ _flatten_dict(flat, "", ".") = flat
        /\ \A i \in 1..Len(flat.v) : ~IsDict(flat.v[i][2]) /\ ~IsList(flat.v[i][2])

\* a record with a nested mapping and a non-empty list has been flattened
C15_Witness ==
    /\ Flattened
    /\ \E i \in 1..Len(data.v) : IsDict(data.v[i][2]) /\ data.v[i][2].v # <<>>
    /\ \E i \in 1..Len(data.v) : IsList(data.v[i][2]) /\ data.v[i][2].v # <<>>
    /\ Len(flat.v) = 2

\* the scalar leaves of a record with the dot-joined path of each, in
\* iteration order
RECURSIVE LeafPaths(_, _)
LeafPaths(d, prefix) ==
    Concat([i \in 1..Len(d.v) |->
        LET path == IF prefix = "" THEN d.v[i][1] ELSE prefix \o "." \o d.v[i][1]
        IN  IF IsDict(d.v[i][2]) THEN LeafPaths(d.v[i][2], path)
            ELSE IF IsList(d.v[i][2]) THEN <<>>
            ELSE << <<path, d.v[i][2]>> >>])

\* C16: every scalar leaf of a record is in the flattened record under its
\* own dot-joined path, and no two leaves share a flattened key.
C16_FlattenLossless ==
    Flattened =>
        LET leaves == LeafPaths(data, "") IN
        /\ \A i \in 1..Len(leaves) :
               /\ HasKey(flat, leaves[i][1])
               /\ GetKey(flat, leaves[i][1]) = leaves[i][2]
        /\ \A i, j \in 1..Len(leaves) : i # j => leaves[i][1] # leaves[j][1]

----------------------------------------------------------------------------
(* Properties of the renderers *)

\* the lines of a byte stream, each ended by a newline; characters after the
\* last newline form a last, unterminated line
RECURSIVE SplitLines(_, _)
SplitLines(cs, line) ==
    IF cs = <<>> THEN (IF line = <<>> THEN <<>> ELSE <<line>>)
    ELSE IF Head(cs) = NL THEN <<line>> \o SplitLines(Tail(cs), <<>>)
    ELSE SplitLines(Tail(cs), Append(line, Head(cs)))

StdoutLines == SplitLines(Written(stdout), <<>>)

\* A JSON reader, written from the JSON grammar: i is the position of the
\* next character, a result is [val, next], and val is Malformed when the
\* characters from i on are not a JSON value.
Malformed == [t |-> "malformed", v |-> <<>>]
At(cs, i) == IF i \in 1..Len(cs) THEN cs[i] ELSE "<eof>"

\* the str with the given characters
StrOf(cs) ==
    CASE cs = <<>> -> ""
      [] cs = <<SP>> -> " "
      [] cs = <<"p", NL, "q">> -> "p\nq"
      [] Len(cs) = 1 /\ cs # <<SP>> -> cs[1]
      [] OTHER -> "<other>"

Digits == {ToString(n) : n \in 0..9}
NumOf(tok) == CHOOSE n \in 0..9 : ToString(n) = tok

RECURSIVE ReadString(_, _, _)
ReadString(cs, i, acc) ==
    IF i > Len(cs) THEN [val |-> Malformed, next |-> i]
    ELSE IF cs[i] = QUOTE THEN [val |-> Str(StrOf(acc)), next |-> i + 1]
    ELSE IF cs[i] = NL \/ cs[i] = CR THEN [val |-> Malformed, next |-> i]
    ELSE IF cs[i] = BSL
        THEN LET c == At(cs, i + 1) IN
             IF c = "n" THEN ReadString(cs, i + 2, Append(acc, NL))
             ELSE IF c = "r" THEN ReadString(cs, i + 2, Append(acc, CR))
             ELSE IF c = QUOTE \/ c = BSL THEN ReadString(cs, i + 2, Append(acc, c))
             ELSE [val |-> Malformed, next |-> i]
    ELSE ReadString(cs, i + 1, Append(acc, cs[i]))

RECURSIVE SkipSpace(_, _)
SkipSpace(cs, i) == IF At(cs, i) \in {SP, NL, CR} THEN SkipSpace(cs, i + 1) ELSE i

RECURSIVE ReadValue(_, _)
RECURSIVE ReadElements(_, _, _)
RECURSIVE ReadMembers(_, _, _)

\* after "[" or after a comma: the remaining elements and the closing "]"
ReadElements(cs, i, acc) ==
    LET e == ReadValue(cs, SkipSpace(cs, i))
        j == SkipSpace(cs, e.next)
    IN  IF e.val = Malformed THEN e
        ELSE IF At(cs, j) = COMMA THEN ReadElements(cs, j + 1, Append(acc, e.val))
        ELSE IF At(cs, j) = "]" THEN [val |-> List(Append(acc, e.val)), next |-> j + 1]
        ELSE [val |-> Malformed, next |-> j]

\* after "{" or after a comma: the remaining members and the closing "}"
ReadMembers(cs, i, acc) ==
    LET i1 == SkipSpace(cs, i)
        k == IF At(cs, i1) = QUOTE THEN ReadString(cs, i1 + 1, <<>>)
             ELSE [val |-> Malformed, next |-> i1]
        i2 == SkipSpace(cs, k.next)
        e == IF k.val # Malformed /\ At(cs, i2) = ":"
                 THEN ReadValue(cs, SkipSpace(cs, i2 + 1))
             ELSE [val |-> Malformed, next |-> i2]
        j == SkipSpace(cs, e.next)
    IN  IF e.val = Malformed THEN e
        ELSE IF At(cs, j) = COMMA
            THEN ReadMembers(cs, j + 1, Append(acc, <<k.val.v, e.val>>))
        ELSE IF At(cs, j) = "}"
            THEN [val |-> Dict(Append(acc, <<k.val.v, e.val>>)), next |-> j + 1]
        ELSE [val |-> Malformed, next |-> j]

ReadValue(cs, i) ==
    LET c == At(cs, i) IN
    IF c = "null" THEN [val |-> Null, next |-> i + 1]
    ELSE IF c \in Digits THEN [val |-> Num(NumOf(c)), next |-> i + 1]
    ELSE IF c = QUOTE THEN ReadString(cs, i + 1, <<>>)
    ELSE IF c = "[" THEN
        (IF At(cs, SkipSpace(cs, i + 1)) = "]"
            THEN [val |-> List(<<>>), next |-> SkipSpace(cs, i + 1) + 1]
         ELSE ReadElements(cs, i + 1, <<>>))
    ELSE IF c = "{" THEN
        (IF At(cs, SkipSpace(cs, i + 1)) = "}"
            THEN [val |-> Dict(<<>>), next |-> SkipSpace(cs, i + 1) + 1]
         ELSE ReadMembers(cs, i + 1, <<>>))
    ELSE [val |-> Malformed, next |-> i]

\* json.loads: one value and nothing after it
json_loads(cs) ==
    LET r == ReadValue(cs, SkipSpace(cs, 1)) IN
    IF r.val # Malformed /\ SkipSpace(cs, r.next) = Len(cs) + 1 THEN r.val
    ELSE Malformed

\* C11: jsonl rendering of a Response that normalizes to a list of N records
\* writes exactly N newline-terminated lines, the i-th of which parses as JSON
\* to the i-th record; for N = 0 nothing is written.
C11_JsonlLinePerRecord ==
    (cmd = "output_jsonl" /\ IsList(records)) =>
        /\ ~raised
        /\ Len(StdoutLines) = Len(records.v)
        /\ Written(stdout) = Concat([i \in 1..Len(StdoutLines) |-> StdoutLines[i] \o <<NL>>])
        /\ \A i \in 1..Len(records.v) : json_loads(StdoutLines[i]) = records.v[i]

\* two records were written, the first holding a str with a line break, the
\* second a list
C11_Witness ==
    /\ cmd = "output_jsonl"
    /\ IsList(records)
    /\ Len(records.v) = 2
    /\ records.v[1] = Dict(<< <<"a", Str("p\nq")>> >>)
    /\ records.v[2] = Dict(<< <<"b", List(<<Num(2), Str("x")>>)>> >>)
    /\ Len(StdoutLines) = 2

\* C13: for a Response that normalizes to zero records, csv rendering writes
\* no byte at all and text rendering writes no line.
C13_NothingForNoRecords ==
    (cmd \in {"output_csv", "output_text"} /\ records = List(<<>>)) =>
        /\ ~raised
        /\ stdout = <<>>
        /\ Written(stdout) = <<>>

\* csv rendering ran on a mapping whose allow-listed list is empty
C13_Witness ==
    /\ cmd = "output_csv"
    /\ data = Dict(<< <<"accounts", List(<<>>)>> >>)
    /\ records = List(<<>>)
    /\ stdout = <<>>

\* A CSV reader (RFC 4180, as csv.reader reads): rows of fields; a field in
\* quotes may hold commas, line breaks and doubled quotes; a blank line is a
\* row without fields.  i is the position of the next character.
RECURSIVE ReadQuoted(_, _, _)
ReadQuoted(cs, i, acc) ==
    IF i > Len(cs) THEN [val |-> acc, next |-> i]
    ELSE IF cs[i] = QUOTE
        THEN IF At(cs, i + 1) = QUOTE THEN ReadQuoted(cs, i + 2, Append(acc, QUOTE))
             ELSE [val |-> acc, next |-> i + 1]
    ELSE ReadQuoted(cs, i + 1, Append(acc, cs[i]))

RECURSIVE ReadPlain(_, _, _)
ReadPlain(cs, i, acc) ==
    IF i > Len(cs) \/ At(cs, i) \in {COMMA, CR, NL} THEN [val |-> acc, next |-> i]
    ELSE ReadPlain(cs, i + 1, Append(acc, cs[i]))

\* the position after the line break at i
AfterBreak(cs, i) ==
    IF At(cs, i) = CR /\ At(cs, i + 1) = NL THEN i + 2 ELSE i + 1

RECURSIVE ReadRows(_, _, _, _)
ReadRows(cs, i, row, rows) ==
    IF i > Len(cs) THEN (IF row = <<>> THEN rows ELSE Append(rows, row))
    ELSE IF row = <<>> /\ cs[i] \in {CR, NL}
        THEN ReadRows(cs, AfterBreak(cs, i), <<>>, Append(rows, <<>>))
    ELSE LET fld == IF cs[i] = QUOTE THEN ReadQuoted(cs, i + 1, <<>>)
                    ELSE ReadPlain(cs, i, <<>>)
             j == fld.next
         IN  IF At(cs, j) = COMMA
                 THEN IF j = Len(cs) \/ At(cs, j + 1) \in {CR, NL}
                          THEN ReadRows(cs, IF j = Len(cs) THEN j + 1
                                            ELSE AfterBreak(cs, j + 1),
                                        <<>>,
                                        Append(rows, Append(Append(row, fld.val), <<>>)))
                      ELSE ReadRows(cs, j + 1, Append(row, fld.val), rows)
             ELSE IF j > Len(cs) THEN Append(rows, Append(row, fld.val))
             ELSE ReadRows(cs, AfterBreak(cs, j), <<>>, Append(rows, Append(row, fld.val)))

CsvRows == ReadRows(Written(stdout), 1, <<>>, <<>>)

\* the flattened form output_csv and output_text give a record
FlatOf(r) == IF IsDict(r) THEN _flatten_dict(r, "", ".") ELSE Dict(<< <<"value", r>> >>)

\* C12: csv rendering of one or more records writes a header row, the sorted
\* union of the flattened keys of all records, then exactly one data row per
\* record in record order, where a column the record lacks and a column whose
\* value is null are both an empty field.
C12_CsvHeaderAndRows ==
    (cmd = "output_csv" /\ IsList(records) /\ records.v # <<>>) =>
        LET n == Len(records.v)
            columns == sorted(UNION {Keys(FlatOf(records.v[i])) : i \in 1..n})
        IN  /\ ~raised
            /\ Len(CsvRows) = n + 1
            /\ CsvRows[1] = [j \in 1..Len(columns) |-> Chars(columns[j])]
            /\ \A i \in 1..n :
                   /\ Len(CsvRows[i + 1]) = Len(columns)
                   /\ \A j \in 1..Len(columns) :
                          (\/ ~HasKey(FlatOf(records.v[i]), columns[j])
                           \/ GetKey(FlatOf(records.v[i]), columns[j]) = Null)
                              => CsvRows[i + 1][j] = <<>>

\* the lines the text format has for one record: key=value per flattened key
\* in key order, a null value being empty; a record that is no mapping is one
\* line
KeyValueLines(r) ==
    IF IsDict(r)
        THEN LET ks == sorted(Keys(FlatOf(r))) IN
             [j \in 1..Len(ks) |->
                 Chars(ks[j]) \o <<"=">>
                     \o (IF GetKey(FlatOf(r), ks[j]) = Null THEN <<>>
                         ELSE str(GetKey(FlatOf(r), ks[j])))]
    ELSE <<str(r)>>

\* C14: text rendering of N >= 1 records writes, record after record, one
\* key=value line per flattened key in key order, with a "---" line between
\* consecutive records and nowhere else: N-1 separators.
C14_TextLinesAndSeparators ==
    (cmd = "output_text" /\ IsList(records) /\ records.v # <<>>) =>
        LET n == Len(records.v) IN
        /\ ~raised
        /\ StdoutLines = Concat([i \in 1..n |->
                                    (IF i > 1 THEN << <<"---">> >> ELSE <<>>)
                                        \o KeyValueLines(records.v[i])])
        /\ Cardinality({l \in 1..Len(StdoutLines) : StdoutLines[l] = <<"---">>}) = n - 1

\* Every list-valued field of every rendered record is flattened to the text
\* Shown gives for the list, and csv and text rendering show that text for
\* the field.
ListFieldsShownAs(Shown(_)) ==
    (cmd \in {"output_csv", "output_text"} /\ IsList(records)) =>
        \A i \in 1..Len(records.v) :
            IsDict(records.v[i]) =>
                \A j \in 1..Len(records.v[i].v) :
                    LET k == records.v[i].v[j][1]
                        v == records.v[i].v[j][2]
                    IN  IsList(v) =>
                            /\ str(GetKey(FlatOf(records.v[i]), k)) = Shown(v)
                            /\ cmd = "output_text" =>
                                   \E l \in 1..Len(StdoutLines) :
                                       StdoutLines[l] = Chars(k) \o <<"=">> \o Shown(v)
                            /\ cmd = "output_csv" =>
                                   /\ Len(CsvRows) > i
                                   /\ \E c \in 1..Len(CsvRows[1]) :
                                          /\ CsvRows[1][c] = Chars(k)
                                          /\ Len(CsvRows[i + 1]) >= c
                                          /\ CsvRows[i + 1][c] = Shown(v)

\* the JSON text of a non-empty list, no character for the empty list
JsonTextOrEmpty(v) == IF v.v = <<>> THEN <<>> ELSE json_dumps(v)

----------------------------------------------------------------------------
(* Properties of the error envelope *)

\* the envelope read back from standard error
Envelope == json_loads(stderr)

\* C18: output_error ends the process with the given exit status, having
\* written to standard error an envelope {"error": {...}} with the given code
\* and message, and with a details field exactly when details were supplied
\* (a non-empty str): the field is never null and never empty.
C18_ErrorEnvelope ==
    cmd = "output_error" =>
        /\ exitCode = args.in.exit_code
        /\ IsDict(Envelope)
        /\ Keys(Envelope) = {"error"}
        /\ LET error == GetKey(Envelope, "error") IN
           /\ IsDict(error)
           /\ {"code", "message"} \subseteq Keys(error)
           /\ Keys(error) \subseteq {"code", "message", "details"}
           /\ GetKey(error, "code") = Str(args.in.code)
           /\ GetKey(error, "message") = Str(args.in.message)
           /\ HasKey(error, "details")
                  <=> (args.in.details # None /\ args.in.details # "")
           /\ HasKey(error, "details") =>
                  /\ GetKey(error, "details") = Str(args.in.details)
                  /\ GetKey(error, "details") \notin {Null, Str("")}

\* an envelope with details was written, then status 4
C18_Witness ==
    /\ cmd = "output_error"
    /\ args.in.details = "p\nq"
    /\ args.in.exit_code = VALIDATION_ERROR
    /\ exitCode = VALIDATION_ERROR
    /\ HasKey(GetKey(Envelope, "error"), "details")

----------------------------------------------------------------------------
(* Properties of the exit statuses and of login validation *)

AuthCodes == {"AUTH_REQUIRED", "AUTH_FAILED", "AUTH_MFA_REQUIRED",
              "AUTH_MFA_FAILED", "AUTH_INVALID_TOKEN"}
ValidationCodes == {"VALIDATION_MISSING_FIELD", "VALIDATION_INVALID_VALUE",
                    "VALIDATION_INVALID_DATE"}

\* the service refused the login of the last invocation
AuthenticationFailed == cmd = "auth login" /\ args.e.auth = "raise"

\* C19: an invocation ends with status 2 only on an authentication failure
\* reported with an AUTH_* code, with status 4 only with a VALIDATION_* code,
\* with status 6 only with MUTATION_BLOCKED, and the seven statuses differ.
C19_StatusIdentifiesClass ==
    /\ exitCode = AUTH_ERROR => (errCode \in AuthCodes /\ AuthenticationFailed)
    /\ exitCode = VALIDATION_ERROR => errCode \in ValidationCodes
    /\ exitCode = MUTATION_BLOCKED => errCode = "MUTATION_BLOCKED"
    /\ Cardinality(ExitCodes) = 7

\* the login of this step uses --mfa-code or --no-interactive and lacks the
\* email or the password
LoginLacksCredentials ==
    /\ cmd' = "auth login"
    /\ args'.in.mfa_code \/ ~args'.in.interactive
    /\ ~args'.in.creds

\* the step ends in the validation error with nothing called and no backend
\* touched
RejectedBeforeAnyCall ==
    /\ exitCode' = VALIDATION_ERROR
    /\ errCode' = "VALIDATION_MISSING_FIELD"
    /\ calls' = <<>>
    /\ keychain' = keychain
    /\ sessionFile' = sessionFile

\* C20 as stated: a login using --mfa-code or --no-interactive without the
\* email or the password ends with status 4 and VALIDATION_MISSING_FIELD,
\* before any service call and before any credential backend is written.
C20_ValidationFirst ==
    [][LoginLacksCredentials => RejectedBeforeAnyCall]_vars

\* C20 amended: the same, for a login that does not also pass --token.
C20_ValidationFirstWithoutToken ==
    [][(LoginLacksCredentials /\ ~Truthy(args'.in.token))
           => RejectedBeforeAnyCall]_vars

\* a login with --mfa-code and no credentials was rejected while a token was
\* stored in the keychain
C20_Witness ==
    /\ cmd = "auth login"
    /\ args.in.mfa_code
    /\ ~args.in.creds
    /\ ~Truthy(args.in.token)
    /\ exitCode = VALIDATION_ERROR
    /\ errCode = "VALIDATION_MISSING_FIELD"
    /\ calls = <<>>
    /\ Truthy(keychain)

----------------------------------------------------------------------------
(* Properties of service failures *)

\* the service operation of the last command was awaited and raised
ServiceRaised ==
    /\ cmd \in {"accounts list"} \cup GatedCommands
    /\ Called(ServiceOp(cmd))
    /\ args.e.svcRaises

\* C21: when the service operation of a data command raises, the invocation
\* ends with a non-zero status, which is the upstream-service status 5, the
\* failure is on standard error as the JSON error envelope, and nothing is
\* written to standard output.
C21_ServiceFailureEnvelope ==
    ServiceRaised =>
        /\ exitCode # SUCCESS
        /\ exitCode = API_ERROR
        /\ IsDict(Envelope)
        /\ HasKey(Envelope, "error")
        /\ stdout = <<>>

\* the step is a login whose email+password or MFA-code service call raised
LoginCallRaised ==
    /\ cmd' = "auth login"
    /\ args'.e.auth = "raise"
    /\ Called("login")' \/ Called("multi_factor_authenticate")'

\* C22: when the service authentication call of an email+password or MFA-code
\* login raises, the invocation ends with status 2 and AUTH_FAILED
\* (email+password) or AUTH_MFA_FAILED (MFA code), neither credential backend
\* is written and "Login successful!" is not printed.
C22_FailedLoginWritesNothing ==
    [][LoginCallRaised =>
          /\ exitCode' = AUTH_ERROR
          /\ errCode' = (IF Called("login")' THEN "AUTH_FAILED" ELSE "AUTH_MFA_FAILED")
          /\ keychain' = keychain
          /\ sessionFile' = sessionFile
          /\ ~Called("keyring.set_password")'
          /\ ~Called("save_session")'
          /\ Count(stdout', "Login successful!") = 0]_vars

\* an MFA-code login was refused while a token was stored in the keychain
C22_Witness ==
    /\ cmd = "auth login"
    /\ args.e.auth = "raise"
    /\ Called("multi_factor_authenticate")
    /\ exitCode = AUTH_ERROR
    /\ errCode = "AUTH_MFA_FAILED"
    /\ Truthy(keychain)

----------------------------------------------------------------------------
(* Properties of the confirmation and of the gate's position *)

\* C23: a delete command run with --allow-mutations whose confirmation is
\* declined aborts with status 1 without invoking the service delete
\* operation; the operation is invoked only after a yes or with --yes.
C23_DeclinedDeleteAborts ==
    (cmd \in ConfirmedCommands /\ args.in.allow) =>
        /\ Declined => (exitCode = GENERAL_ERROR /\ ~Called(ServiceOp(cmd)))
        /\ Called(ServiceOp(cmd)) => (args.in.yes \/ args.in.answer)

\* a delete was declined with the gate open and a token in the keychain
C23_Witness ==
    /\ cmd = "accounts delete"
    /\ args.in.allow
    /\ Declined
    /\ exitCode = GENERAL_ERROR
    /\ calls = <<>>
    /\ Truthy(keychain)

----------------------------------------------------------------------------
(* Properties of the normalizer's priority order *)

\* entry j of mapping d is a sub-mapping with a list-valued "results" field
PaginatedEntry(d, j) ==
    /\ IsDict(d.v[j][2])
    /\ HasKey(d.v[j][2], "results")
    /\ IsList(GetKey(d.v[j][2], "results"))

\* entry i of mapping d is an allow-listed key with a list value
AllowListedEntry(d, i) == InListKeys(d.v[i][1]) /\ IsList(d.v[i][2])

\* C24: for a mapping Response with an allow-listed key holding a list and
\* another key holding a sub-mapping with a list-valued "results", the nested
\* "results" list is returned, whichever of the two keys comes first.
C24_NestedResultsFirst ==
    (cmd = "_extract_records" /\ IsDict(data)) =>
        \A i, j \in 1..Len(data.v) :
            (i # j /\ AllowListedEntry(data, i) /\ PaginatedEntry(data, j))
                => records = GetKey(data.v[j][2], "results")

\* C25: whatever the Response, _extract_records returns a sequence, never
\* null, a scalar or a mapping.
C25_AlwaysASequence ==
    cmd = "_extract_records" => IsList(records)


----------------------------------------------------------------------------
\* Properties of persisting and resolving across invocations

\* the last invocation was a login that exited 0 having obtained a token
LoginStored ==
    /\ cmd = "auth login"
    /\ exitCode = SUCCESS
    /\ LoginObtained
    /\ ObtainedToken \in Tokens

\* the token a credential resolution yields from backends kc and f when no
\* backend read fails
Resolved(kc, f) == get_client(kc, f, QuietEnv).mm.token

\* C26: when a login that persisted T1 is followed by a login that persists
\* a different token T2, each keychain write succeeding or failing on its
\* own, a credential resolution made afterwards returns T2, the token of the
\* login whose persist step completed last.
C26_LastWriterWins ==
    [][(LoginStored /\ LoginStored' /\ ObtainedToken' # ObtainedToken)
          => Resolved(keychain', sessionFile') = ObtainedToken']_vars

\* C28: after a login that exited 0 having stored token T, a command run
\* next that resolves the credential, its backend reads not failing, gets T
\* on its client.
C28_PersistThenResolve ==
    [][(LoginStored /\ GetClientRan'
          /\ ~args'.e.getRaises /\ ~args'.e.loadRaises)
          => client'.token = ObtainedToken]_vars


----------------------------------------------------------------------------
\* Properties of the service call's place in an invocation

\* the operations of the service client that go to the network
ServiceOps ==
    {ServiceOp(c) : c \in GatedCommands \cup {"accounts list"}}
        \cup {"login", "multi_factor_authenticate", "interactive_login"}

ServiceCalls == Cardinality({i \in 1..Len(calls) : calls[i] \in ServiceOps})

\* the invocation's service call was made and raised: whatever is on stdout
\* was written before the call completed
ServiceCallFailed ==
    /\ ServiceCalls >= 1
    /\ \/ cmd = "auth login" /\ args.e.auth = "raise"
       \/ cmd \in GatedCommands \cup {"accounts list"} /\ args.e.svcRaises

\* C27: an invocation makes at most one service call, and writes nothing to
\* stdout before that call has completed: when the call raises, stdout is
\* empty, and the result line is on stdout only when the call returned.
C27_OneCallThenOutput ==
    /\ ServiceCalls <= 1
    /\ ServiceCallFailed => stdout = <<>>
    /\ (cmd \in GatedCommands \cup {"accounts list"} /\ stdout # <<>>)
          => (ServiceCalls = 1 /\ ~args.e.svcRaises)


----------------------------------------------------------------------------
\* Properties of what a reported logout leaves behind

\* the last invocation was a logout that reported a deletion
LogoutReported == cmd = "auth logout" /\ stdout = <<"Session deleted.">>

\* C29: after a logout that reported "Session deleted.", an auth status run
\* next reports "Not authenticated" and a command run next that resolves the
\* credential gets a client with no token and no Authorization header,
\* whichever backend operation failed during the logout.
C29_LogoutLeavesNothing ==
    [][LogoutReported =>
          /\ cmd' = "auth status" => stdout' = <<"Not authenticated">>
          /\ GetClientRan' => client' = NewClient]_vars


----------------------------------------------------------------------------
\* Properties of the gate's place before credential resolution

BackendRead ==
    \/ Called("keyring.get_password")
    \/ Called("exists")
    \/ Called("load_session")

\* C30: a gated command invoked without --allow-mutations reads neither
\* credential backend and builds no client: get_client is not called, and
\* when the denial is issued no call at all has been made.
C30_GateBeforeResolution ==
    (cmd \in GatedCommands /\ ~args.in.allow) =>
        /\ ~BackendRead
        /\ ~Called("set_token")
        /\ client = NewClient
        /\ errCode = "MUTATION_BLOCKED" => calls = <<>>

C30_Witness ==
    /\ cmd = "tags create"
    /\ ~args.in.allow
    /\ errCode = "MUTATION_BLOCKED"
    /\ exitCode = MUTATION_BLOCKED
    /\ Truthy(keychain)
    /\ sessionFile \in Tokens
    /\ ~BackendRead

====
